---- MODULE Spec2Model ----
(***************************************************************************)
(* Model of the two scripts of GrubGuru-Menu-Importer:                     *)
(*   src/main.py               the batch menu importer                     *)
(*   src/restaurant_dietary.py the interactive dietary-options manager     *)
(* Strings are sequences of one-character strings, so that endswith,       *)
(* splitext, strip, lower, isdigit, int and sorted are computed as Python  *)
(* computes them.                                                          *)
(***************************************************************************)
EXTENDS Integers, Sequences, FiniteSets, TLC

VARIABLES
    \* ---- importer (src/main.py) ----
    dir_listing,      \* os.listdir(MENU_DIR): the file names, in listing order
    file_content,     \* file name -> what open/json.load meet in that file
    menus,            \* restaurants table: name -> stored menus value (JSON)
    ipc,              \* importer position: "start", "loop", "done", "idle"
    run,              \* which of the two successive importer runs is executing
    json_files,       \* main(): json_files
    i,                \* main(): 1-based position of the for loop in json_files
    success_count,    \* main(): success_count
    failure,          \* main(): failure
    last_file,        \* the file the loop body handled last (<<>> before any)
    last_outcome,     \* how the loop body ended for last_file
    db_calls_file,    \* database calls issued while handling last_file
    db_failed,        \* some database call so far raised or returned no data
    first_run_menus,  \* restaurants table as the first run left it
    \* ---- manager (src/restaurant_dietary.py) ----
    active,           \* the manager processes running against the database
    restaurant_rows,  \* restaurants table as the manager reads it: name -> id
    option_rows,      \* dietary_options table: name -> id
    junction,         \* restaurant_dietary_options: <<restaurant_id,
                      \* dietary_option_id>> -> number of rows holding the pair
    junction0,        \* the junction table before any manager ran
    pc,               \* per process: "startup", "restaurant-prompt",
                      \* "option-prompt", "insert" (inside
                      \* add_dietary_option_to_restaurant, between its select
                      \* and its insert), "exited"
    restaurants,      \* per process, main(): restaurants (name -> id)
    dietary_options,  \* per process, main(): dietary_options (name -> id)
    restaurant_input, \* per process, main(): restaurant_input once a
                      \* restaurant is selected (before, every pass overwrites it)
    restaurant_id,    \* per process, main(): restaurant_id
    option_input,     \* per process, main(): option_input while
                      \* add_dietary_option_to_restaurant runs (<<>> otherwise)
    last_calls,       \* per process: database calls since the last line was read
    printed,          \* per process: messages printed since the last line was read
    add_result,       \* per process: what add_dietary_option_to_restaurant
                      \* returned last ("none" before any call)
    add_hist,         \* per process: pair -> "none" (no add call of this run
                      \* completed for it), "added" (one returned True) or
                      \* "failed" (all returned False); kept when tracking
    tracking          \* whether add_hist is kept

ivars == <<dir_listing, file_content, menus, ipc, run, json_files, i,
           success_count, failure, last_file, last_outcome, db_calls_file,
           db_failed, first_run_menus>>
mvars == <<active, restaurant_rows, option_rows, junction, junction0, pc,
           restaurants, dietary_options, restaurant_input, restaurant_id,
           option_input, last_calls, printed, add_result, add_hist, tracking>>
vars == <<ivars, mvars>>

(***************************************************************************)
(* Bounds                                                                  *)
(***************************************************************************)
MaxFiles == 2

(***************************************************************************)
(* Python string primitives                                                *)
(***************************************************************************)
\* str.endswith(suffix)
endswith(s, suffix) ==
    /\ Len(s) >= Len(suffix)
    /\ SubSeq(s, Len(s) - Len(suffix) + 1, Len(s)) = suffix

\* position of the last "." of p, 0 when there is none (str.rfind + 1)
rfind_dot(p) ==
    IF \E k \in 1..Len(p) : p[k] = "."
    THEN CHOOSE k \in 1..Len(p) :
            p[k] = "." /\ \A j \in (k + 1)..Len(p) : p[j] # "."
    ELSE 0

\* os.path.splitext(p)[0] for a name without directory separators: cut at the
\* last dot unless only dots precede it
splitext_root(p) ==
    LET d == rfind_dot(p) IN
    IF d > 0 /\ \E k \in 1..(d - 1) : p[k] # "."
    THEN SubSeq(p, 1, d - 1)
    ELSE p

\* the characters of the model in code-point order
Alphabet ==
    <<" ", ".", "0", "1", "2", "3", "4", "5", "6", "7", "8", "9",
      "A", "B", "C", "D", "E", "F", "G", "H", "I", "J", "K", "L", "M",
      "N", "O", "P", "Q", "R", "S", "T", "U", "V", "W", "X", "Y", "Z",
      "a", "b", "c", "d", "e", "f", "g", "h", "i", "j", "k", "l", "m",
      "n", "o", "p", "q", "r", "s", "t", "u", "v", "w", "x", "y", "z">>
Digits == <<"0", "1", "2", "3", "4", "5", "6", "7", "8", "9">>
UpperCase ==
    <<"A", "B", "C", "D", "E", "F", "G", "H", "I", "J", "K", "L", "M",
      "N", "O", "P", "Q", "R", "S", "T", "U", "V", "W", "X", "Y", "Z">>
LowerCase ==
    <<"a", "b", "c", "d", "e", "f", "g", "h", "i", "j", "k", "l", "m",
      "n", "o", "p", "q", "r", "s", "t", "u", "v", "w", "x", "y", "z">>

Chars == { Alphabet[k] : k \in 1..Len(Alphabet) }
DigitChars == { Digits[k] : k \in 1..Len(Digits) }

\* character -> its rank in code-point order
OrdTable == [c \in Chars |-> CHOOSE k \in 1..Len(Alphabet) : Alphabet[k] = c]
ord(c) == OrdTable[c]

\* character -> its lower-case form
LowerTable ==
    [c \in Chars |->
        IF \E k \in 1..Len(UpperCase) : UpperCase[k] = c
        THEN LowerCase[CHOOSE k \in 1..Len(UpperCase) : UpperCase[k] = c]
        ELSE c]
lower_char(c) == LowerTable[c]

\* digit -> its value
DigitTable == [c \in DigitChars |-> (CHOOSE d \in 1..Len(Digits) : Digits[d] = c) - 1]
digit_value(c) == DigitTable[c]

SetMin(S) == CHOOSE x \in S : \A y \in S : x <= y
SetMax(S) == CHOOSE x \in S : \A y \in S : x >= y

\* str.strip()
strip(s) ==
    LET kept == { k \in 1..Len(s) : s[k] # " " } IN
    IF kept = {} THEN <<>> ELSE SubSeq(s, SetMin(kept), SetMax(kept))

\* str.lower()
lower(s) == [k \in 1..Len(s) |-> lower_char(s[k])]

\* str.isdigit()
isdigit(s) == Len(s) > 0 /\ \A k \in 1..Len(s) : s[k] \in DigitChars

\* int(s) for a string of digits
RECURSIVE int(_)
int(s) ==
    IF Len(s) = 0 THEN 0
    ELSE 10 * int(SubSeq(s, 1, Len(s) - 1)) + digit_value(s[Len(s)])

\* str(n) for n >= 0
RECURSIVE str(_)
str(n) ==
    IF n < 10 THEN <<Digits[n + 1]>>
    ELSE str(n \div 10) \o <<Digits[(n % 10) + 1]>>

\* a < b for two strings (lexicographic, by code point)
str_less(a, b) ==
    \E k \in 1..(Len(b)) :
        /\ \A j \in 1..(k - 1) : j <= Len(a) /\ a[j] = b[j]
        /\ \/ k > Len(a)
           \/ k <= Len(a) /\ ord(a[k]) < ord(b[k])

\* sorted(keys)
RECURSIVE sorted(_)
sorted(S) ==
    IF S = {} THEN <<>>
    ELSE LET first == CHOOSE x \in S : \A y \in S \ {x} : str_less(x, y)
         IN  <<first>> \o sorted(S \ {first})

\* seq[idx] as Python indexes a list: from 0, a negative index from the end
py_index(seq, idx) ==
    IF idx < 0 THEN seq[Len(seq) + idx + 1] ELSE seq[idx + 1]

(***************************************************************************)
(* Importer: src/main.py                                                   *)
(***************************************************************************)
DotJson == <<".", "j", "s", "o", "n">>

\* file names the source directory may hold
FileNames ==
    { <<"a">> \o DotJson,              \* a.json       -> a
      DotJson,                         \* .json        -> .json
      DotJson \o DotJson,              \* .json.json   -> .json
      <<"a", ".", "t", "x", "t">> }    \* a.txt        (not a menu file)

\* restaurant names the restaurants table may hold
RestaurantNames == { <<"a">>, DotJson }

\* JSON documents a menu file may hold, and the two ways a file fails to load
JsonTexts == {"null", "{}", "[]", "0", "false", "{menu}"}
Unreadable == "unreadable"
BadJson == "bad-json"
Contents == JsonTexts \cup {Unreadable, BadJson}
OldMenu == "{old}"

\* json.load: the Python value of a JSON document
json_load(text) ==
    CASE text = "null"   -> "None"
      [] text = "{}"     -> "dict()"
      [] text = "[]"     -> "list()"
      [] text = "0"      -> "int(0)"
      [] text = "false"  -> "False"
      [] text = "{menu}" -> "dict(menu)"

\* the JSON the client sends for a Python value (the request body of update)
json_dumps(value) ==
    CASE value = "None"       -> "null"
      [] value = "dict()"     -> "{}"
      [] value = "list()"     -> "[]"
      [] value = "int(0)"     -> "0"
      [] value = "False"      -> "false"
      [] value = "dict(menu)" -> "{menu}"

get_json_files(directory) ==
    SelectSeq(directory, LAMBDA file : endswith(file, DotJson))

extract_restaurant_name(filename) == splitext_root(filename)

\* a loader that hands back an empty menu when the file cannot be loaded
load_menu_data_empty_on_error(content) ==
    IF content = BadJson THEN "dict()"
    ELSE IF content = Unreadable THEN "dict()"
    ELSE json_load(content)

\* returns the parsed value, or None after a parse or read failure
load_menu_data(content) ==
    IF content = BadJson THEN "None"
    ELSE IF content = Unreadable THEN "None"
    ELSE json_load(content)

\* what the database does to one call of update_restaurant_menu
Faults == {"none", "select-raises", "update-raises", "update-no-data"}

\* an update that creates the row when the name matches none (an upsert)
update_restaurant_menu_upsert(restaurant_name, menu_data, tbl, fault) ==
    IF fault # "none"
    THEN [ret |-> FALSE, tbl |-> tbl, calls |-> <<"select">>,
          outcome |-> "exception", escaped |-> FALSE]
    ELSE [ret |-> TRUE,
          tbl |-> [n \in DOMAIN tbl \cup {restaurant_name} |->
                     IF n = restaurant_name THEN json_dumps(menu_data)
                     ELSE tbl[n]],
          calls |-> <<"upsert">>,
          outcome |-> "updated", escaped |-> FALSE]

\* an update that merges the payload into the stored menu instead of replacing it
update_restaurant_menu_merge(restaurant_name, menu_data, tbl, fault) ==
    IF fault # "none" \/ restaurant_name \notin DOMAIN tbl
    THEN [ret |-> FALSE, tbl |-> tbl, calls |-> <<"select">>,
          outcome |-> IF fault # "none" THEN "exception" ELSE "not-found",
          escaped |-> FALSE]
    ELSE [ret |-> TRUE,
          tbl |-> [tbl EXCEPT ![restaurant_name] =
                     <<tbl[restaurant_name], json_dumps(menu_data)>>],
          calls |-> <<"select", "update">>,
          outcome |-> "updated", escaped |-> FALSE]

\* update_restaurant_menu(restaurant_name, menu_data) on table tbl; the result is
\* the returned value, the table afterwards, the calls issued and whether an
\* exception left the function
update_restaurant_menu(restaurant_name, menu_data, tbl, fault) ==
    IF fault = "select-raises"
    THEN [ret |-> FALSE, tbl |-> tbl, calls |-> <<"select">>,
          outcome |-> "exception", escaped |-> FALSE]
    ELSE IF restaurant_name \notin DOMAIN tbl
    THEN [ret |-> FALSE, tbl |-> tbl, calls |-> <<"select">>,
          outcome |-> "not-found", escaped |-> FALSE]
    ELSE IF fault = "update-raises"
    THEN [ret |-> FALSE, tbl |-> tbl, calls |-> <<"select", "update">>,
          outcome |-> "exception", escaped |-> FALSE]
    ELSE IF fault = "update-no-data"
    THEN [ret |-> FALSE, tbl |-> tbl, calls |-> <<"select", "update">>,
          outcome |-> "no-data", escaped |-> FALSE]
    ELSE [ret |-> TRUE,
          tbl |-> [tbl EXCEPT ![restaurant_name] = json_dumps(menu_data)],
          calls |-> <<"select", "update">>,
          outcome |-> "updated", escaped |-> FALSE]

\* main(), the test that sends a file to the skip branch
load_failed(menu_data) == menu_data = "None"

\* sequences of distinct file names, at most MaxFiles long
Listings ==
    { s \in UNION { [1..n -> FileNames] : n \in 0..MaxFiles } :
        \A j, k \in 1..Len(s) : j # k => s[j] # s[k] }

Range(s) == { s[k] : k \in 1..Len(s) }

\* no manager process runs
ManagerIdle ==
    /\ active = {}
    /\ restaurant_rows = <<>>
    /\ option_rows = <<>>
    /\ junction = <<>>
    /\ junction0 = <<>>
    /\ pc = <<>>
    /\ restaurants = <<>>
    /\ dietary_options = <<>>
    /\ restaurant_input = <<>>
    /\ restaurant_id = <<>>
    /\ option_input = <<>>
    /\ last_calls = <<>>
    /\ printed = <<>>
    /\ add_result = <<>>
    /\ add_hist = <<>>
    /\ tracking = FALSE

InitImporter ==
    /\ dir_listing \in Listings
    /\ file_content \in [Range(dir_listing) -> Contents]
    /\ \A f \in Range(dir_listing) :
          ~endswith(f, DotJson) => file_content[f] = "{menu}"
    /\ \E present \in SUBSET RestaurantNames :
          menus = [n \in present |-> OldMenu]
    /\ ipc = "start"
    /\ run = 1
    /\ json_files = <<>>
    /\ i = 1
    /\ success_count = 0
    /\ failure = 0
    /\ last_file = <<>>
    /\ last_outcome = "none"
    /\ db_calls_file = <<>>
    /\ db_failed = FALSE
    /\ first_run_menus = menus
    /\ ManagerIdle

\* main(): list the directory and reset the counts
StartRun ==
    /\ ipc = "start"
    /\ json_files' = get_json_files(dir_listing)
    /\ success_count' = 0
    /\ failure' = 0
    /\ i' = 1
    /\ ipc' = "loop"
    /\ last_file' = <<>>
    /\ last_outcome' = "none"
    /\ db_calls_file' = <<>>
    /\ UNCHANGED <<dir_listing, file_content, menus, run, db_failed,
                   first_run_menus, mvars>>

\* main(): one iteration of the for loop
ProcessFile ==
    /\ ipc = "loop"
    /\ i <= Len(json_files)
    /\ LET json_file == json_files[i]
           restaurant_name == extract_restaurant_name(json_file)
           menu_data == load_menu_data(file_content[json_file])
       IN  /\ last_file' = json_file
           /\ i' = i + 1
           /\ IF load_failed(menu_data)
              THEN /\ failure' = failure + 1
                   /\ last_outcome' = "load-failed"
                   /\ db_calls_file' = <<>>
                   /\ ipc' = "loop"
                   /\ UNCHANGED <<success_count, menus, db_failed>>
              ELSE \E fault \in Faults :
                   LET r == update_restaurant_menu(restaurant_name, menu_data,
                                                   menus, fault)
                   IN  /\ menus' = r.tbl
                       /\ db_calls_file' = r.calls
                       /\ last_outcome' = r.outcome
                       /\ db_failed' =
                             (db_failed \/ r.outcome \in {"exception", "no-data"})
                       /\ ipc' = IF r.escaped THEN "crashed" ELSE "loop"
                       /\ IF r.ret
                          THEN success_count' = success_count + 1
                               /\ failure' = failure
                          ELSE failure' = failure + 1
                               /\ success_count' = success_count
    /\ UNCHANGED <<dir_listing, file_content, run, json_files,
                   first_run_menus, mvars>>

\* main(): the loop is over, "Import complete" is logged
Finish ==
    /\ ipc = "loop"
    /\ i > Len(json_files)
    /\ ipc' = "done"
    /\ first_run_menus' = IF run = 1 THEN menus ELSE first_run_menus
    /\ UNCHANGED <<dir_listing, file_content, menus, run, json_files, i,
                   success_count, failure, last_file, last_outcome,
                   db_calls_file, db_failed, mvars>>

\* the operator starts the importer again over the same directory
RunAgain ==
    /\ ipc = "done"
    /\ run = 1
    /\ run' = 2
    /\ ipc' = "start"
    /\ UNCHANGED <<dir_listing, file_content, menus, json_files, i,
                   success_count, failure, last_file, last_outcome,
                   db_calls_file, db_failed, first_run_menus, mvars>>

\* one run of main()
NextRun == StartRun \/ ProcessFile \/ Finish

\* two successive runs
NextImporter == StartRun \/ ProcessFile \/ Finish \/ RunAgain

SpecImporter == InitImporter /\ [][NextImporter]_vars

\* the process is scheduled until it ends: main() has no blocking wait
SpecImporterFair == InitImporter /\ [][NextRun]_vars /\ WF_vars(NextRun)

(***************************************************************************)
(* Manager: src/restaurant_dietary.py                                      *)
(***************************************************************************)
Procs == {"m1", "m2"}

RestaurantIds == {"r1", "r2"}
OptionIds == {"o1", "o2"}
Pairs == RestaurantIds \X OptionIds

\* an empty dict
EmptyMap == <<>>

Map2(k1, v1, k2, v2) == [k \in {k1, k2} |-> IF k = k1 THEN v1 ELSE v2]

\* contents of the restaurants table
RestaurantTables ==
    { EmptyMap,
      Map2(<<"A">>, "r1", <<"B">>, "r2"),
      Map2(<<"2">>, "r1", <<"q">>, "r2") }

\* contents of the dietary_options table
OptionTables ==
    { EmptyMap,
      Map2(<<"V">>, "o1", <<"d", "o", "n", "e">>, "o2"),
      Map2(<<"2">>, "o1", <<"V">>, "o2") }

\* lines the operator may type
Lines ==
    { <<>>, <<"0">>, <<"1">>, <<"2">>, <<"3">>,
      <<"A">>, <<" ", "A", " ">>, <<"B">>, <<"V">>, <<"z">>,
      <<"q">>, <<"Q">>,
      <<"e", "x", "i", "t">>,
      <<"q", "u", "i", "t">>,
      <<"d", "o", "n", "e">>, <<"D", "o", "n", "e">> }

ExitWords == { <<"e", "x", "i", "t">>, <<"q", "u", "i", "t">>, <<"q">> }
DoneWord == <<"d", "o", "n", "e">>

\* get_restaurants(): {} when the response carries an error
get_restaurants(rows, error) == IF error THEN EmptyMap ELSE rows

\* get_dietary_options(): {} when the response carries an error
get_dietary_options(rows, error) == IF error THEN EmptyMap ELSE rows

\* the range test without its lower bound
index_in_range_no_lower_bound(idx, n) == idx < n

\* main(): the test on a typed number, idx being the number minus one
index_in_range(idx, n) == 0 <= idx /\ idx < n

\* main(): the words that end the program
is_exit_word(input) == lower(input) \in ExitWords

\* main(): what the outer loop makes of a line
restaurant_choice(line, rmap) ==
    LET input == strip(line) IN
    IF is_exit_word(input)
    THEN [kind |-> "exit", name |-> input]
    ELSE IF isdigit(input) /\ ~index_in_range(int(input) - 1, Cardinality(DOMAIN rmap))
    THEN [kind |-> "invalid-number", name |-> input]
    ELSE LET name == IF isdigit(input)
                     THEN py_index(sorted(DOMAIN rmap), int(input) - 1)
                     ELSE input
         IN  IF name \notin DOMAIN rmap
             THEN [kind |-> "not-found", name |-> name]
             ELSE [kind |-> "selected", name |-> name]

\* an inner loop that looks the line up among the option names before it tests
\* for the control words
option_choice_names_first(line, omap) ==
    LET input == strip(line) IN
    IF input \in DOMAIN omap
    THEN [kind |-> "selected", name |-> input]
    ELSE IF lower(input) = DoneWord
    THEN [kind |-> "done", name |-> input]
    ELSE IF is_exit_word(input)
    THEN [kind |-> "exit", name |-> input]
    ELSE [kind |-> "not-found", name |-> input]

\* main(): what the inner loop makes of a line
option_choice(line, omap) ==
    LET input == strip(line) IN
    IF lower(input) = DoneWord
    THEN [kind |-> "done", name |-> input]
    ELSE IF is_exit_word(input)
    THEN [kind |-> "exit", name |-> input]
    ELSE IF isdigit(input) /\ ~index_in_range(int(input) - 1, Cardinality(DOMAIN omap))
    THEN [kind |-> "invalid-number", name |-> input]
    ELSE LET name == IF isdigit(input)
                     THEN py_index(sorted(DOMAIN omap), int(input) - 1)
                     ELSE input
         IN  IF name \notin DOMAIN omap
             THEN [kind |-> "not-found", name |-> name]
             ELSE [kind |-> "selected", name |-> name]

\* a check that never finds the existing row
add_check_no_lookup(tbl, rid, oid, error) ==
    IF error THEN "error" ELSE "insert"

\* a check that does not look at the error of the response
add_check_ignore_error(tbl, rid, oid, error) ==
    IF tbl[<<rid, oid>>] > 0 THEN "exists" ELSE "insert"

\* add_dietary_option_to_restaurant, first half: the select for the pair and
\* what follows from its response
add_check(tbl, rid, oid, error) ==
    IF error THEN "error"
    ELSE IF tbl[<<rid, oid>>] > 0 THEN "exists"
    ELSE "insert"

\* add_dietary_option_to_restaurant, second half: the insert and the value
\* returned
add_insert(tbl, rid, oid, error) ==
    IF error
    THEN [ret |-> "False", tbl |-> tbl, printed |-> {"error-add"}]
    ELSE [ret |-> "True",
          tbl |-> [tbl EXCEPT ![<<rid, oid>>] = @ + 1],
          printed |-> {}]

\* main(): what the caller prints for the value add_dietary_option_to_restaurant
\* returned
added_message(ret) == IF ret = "True" THEN {"added"} ELSE {}

\* display_restaurant_dietary_options: one select; its response only decides
\* what is printed
display_restaurant_dietary_options == <<"select-links">>

\* the record of completed add calls, kept when tracking is on
Recorded(hist, pr, ret) ==
    IF ~tracking THEN hist
    ELSE [hist EXCEPT ![pr] = IF ret = "True" \/ @ = "added" THEN "added"
                              ELSE "failed"]

InitManager(procs, rtables, otables, links, track) ==
    /\ active = procs
    /\ tracking = track
    /\ restaurant_rows \in rtables
    /\ option_rows \in otables
    /\ junction \in { [pr \in Pairs |-> IF pr \in l THEN 1 ELSE 0] : l \in links }
    /\ junction0 = junction
    /\ pc = [p \in procs |-> "startup"]
    /\ restaurants = [p \in procs |-> EmptyMap]
    /\ dietary_options = [p \in procs |-> EmptyMap]
    /\ restaurant_input = [p \in procs |-> <<>>]
    /\ restaurant_id = [p \in procs |-> "none"]
    /\ option_input = [p \in procs |-> <<>>]
    /\ last_calls = [p \in procs |-> <<>>]
    /\ printed = [p \in procs |-> {}]
    /\ add_result = [p \in procs |-> "none"]
    /\ add_hist = [p \in procs |-> [pr \in Pairs |-> "none"]]

\* the importer does not run
ImporterIdle ==
    /\ dir_listing = <<>>
    /\ file_content = <<>>
    /\ menus = <<>>
    /\ ipc = "idle"
    /\ run = 1
    /\ json_files = <<>>
    /\ i = 1
    /\ success_count = 0
    /\ failure = 0
    /\ last_file = <<>>
    /\ last_outcome = "none"
    /\ db_calls_file = <<>>
    /\ db_failed = FALSE
    /\ first_run_menus = <<>>

\* main(): load both mappings, leave when either is empty; err_r and err_o tell
\* whether the two responses carry an error
Startup(p, err_r, err_o) ==
    /\ pc[p] = "startup"
    /\ LET rmap == get_restaurants(restaurant_rows, err_r)
           omap == get_dietary_options(option_rows, err_o)
       IN  /\ restaurants' = [restaurants EXCEPT ![p] = rmap]
           /\ dietary_options' = [dietary_options EXCEPT ![p] = omap]
           /\ last_calls' = [last_calls EXCEPT
                               ![p] = <<"select-restaurants", "select-options">>]
           /\ IF DOMAIN rmap = {}
              THEN /\ pc' = [pc EXCEPT ![p] = "exited"]
                   /\ printed' = [printed EXCEPT ![p] = {"no-restaurants"}]
              ELSE IF DOMAIN omap = {}
              THEN /\ pc' = [pc EXCEPT ![p] = "exited"]
                   /\ printed' = [printed EXCEPT ![p] = {"no-options"}]
              ELSE /\ pc' = [pc EXCEPT ![p] = "restaurant-prompt"]
                   /\ printed' = [printed EXCEPT ![p] = {"found"}]
    /\ UNCHANGED <<ivars, active, tracking, restaurant_rows, option_rows,
                   junction, junction0, restaurant_input, restaurant_id,
                   option_input, add_result, add_hist>>

\* main(): one pass of the outer loop on the line read at its prompt
RestaurantInput(p, line) ==
    /\ pc[p] = "restaurant-prompt"
    /\ LET c == restaurant_choice(line, restaurants[p]) IN
       IF c.kind = "exit"
       THEN /\ pc' = [pc EXCEPT ![p] = "exited"]
            /\ printed' = [printed EXCEPT ![p] = {"thank-you"}]
            /\ last_calls' = [last_calls EXCEPT ![p] = <<>>]
            /\ UNCHANGED <<restaurant_input, restaurant_id>>
       ELSE IF c.kind \in {"invalid-number", "not-found"}
       THEN /\ printed' = [printed EXCEPT ![p] = {c.kind}]
            /\ last_calls' = [last_calls EXCEPT ![p] = <<>>]
            /\ UNCHANGED <<pc, restaurant_input, restaurant_id>>
       ELSE /\ restaurant_input' = [restaurant_input EXCEPT ![p] = c.name]
            /\ restaurant_id' =
                  [restaurant_id EXCEPT ![p] = restaurants[p][c.name]]
            /\ pc' = [pc EXCEPT ![p] = "option-prompt"]
            /\ printed' = [printed EXCEPT ![p] = {}]
            /\ last_calls' =
                  [last_calls EXCEPT ![p] = display_restaurant_dietary_options]
    /\ UNCHANGED <<ivars, active, tracking, restaurant_rows, option_rows,
                   junction, junction0, restaurants, dietary_options,
                   option_input, add_result, add_hist>>

\* main(): one pass of the inner loop on the line read at its prompt, up to the
\* next prompt or to the insert of add_dietary_option_to_restaurant; err_check
\* tells whether the response of the select for the pair carries an error
OptionInput(p, line, err_check) ==
    /\ pc[p] = "option-prompt"
    /\ LET c == option_choice(line, dietary_options[p]) IN
       IF c.kind = "done"
       THEN /\ pc' = [pc EXCEPT ![p] = "restaurant-prompt"]
            /\ printed' = [printed EXCEPT ![p] = {}]
            /\ last_calls' = [last_calls EXCEPT ![p] = <<>>]
            /\ UNCHANGED <<option_input, add_result, add_hist>>
       ELSE IF c.kind = "exit"
       THEN /\ pc' = [pc EXCEPT ![p] = "exited"]
            /\ printed' = [printed EXCEPT ![p] = {}]
            /\ last_calls' = [last_calls EXCEPT ![p] = <<>>]
            /\ UNCHANGED <<option_input, add_result, add_hist>>
       ELSE IF c.kind \in {"invalid-number", "not-found"}
       THEN /\ printed' = [printed EXCEPT ![p] = {c.kind}]
            /\ last_calls' =
                  [last_calls EXCEPT ![p] = display_restaurant_dietary_options]
            /\ UNCHANGED <<pc, option_input, add_result, add_hist>>
       ELSE LET oid == dietary_options[p][c.name]
                pr == <<restaurant_id[p], oid>>
                chk == add_check(junction, restaurant_id[p], oid, err_check)
            IN  IF chk = "insert"
                THEN /\ pc' = [pc EXCEPT ![p] = "insert"]
                     /\ option_input' = [option_input EXCEPT ![p] = c.name]
                     /\ printed' = [printed EXCEPT ![p] = {}]
                     /\ last_calls' = [last_calls EXCEPT ![p] = <<"select-pair">>]
                     /\ UNCHANGED <<add_result, add_hist>>
                ELSE /\ UNCHANGED <<pc, option_input>>
                     /\ add_result' = [add_result EXCEPT ![p] = "False"]
                     /\ add_hist' =
                           [add_hist EXCEPT ![p] = Recorded(@, pr, "False")]
                     /\ printed' =
                           [printed EXCEPT
                              ![p] = IF chk = "error" THEN {"error-check"}
                                     ELSE {"already"}]
                     /\ last_calls' =
                           [last_calls EXCEPT
                              ![p] = <<"select-pair">>
                                     \o display_restaurant_dietary_options]
    /\ UNCHANGED <<ivars, active, tracking, restaurant_rows, option_rows,
                   junction, junction0, restaurants, dietary_options,
                   restaurant_input, restaurant_id>>

\* add_dietary_option_to_restaurant after its select found no row: the insert,
\* then the rest of the inner loop's pass; err_insert tells whether the
\* response of the insert carries an error
Insert(p, err_insert) ==
    /\ pc[p] = "insert"
    /\ LET oid == dietary_options[p][option_input[p]]
           pr == <<restaurant_id[p], oid>>
           r == add_insert(junction, restaurant_id[p], oid, err_insert)
       IN  /\ junction' = r.tbl
           /\ add_result' = [add_result EXCEPT ![p] = r.ret]
           /\ add_hist' = [add_hist EXCEPT ![p] = Recorded(@, pr, r.ret)]
           /\ printed' =
                 [printed EXCEPT ![p] = r.printed \cup added_message(r.ret)]
           /\ last_calls' =
                 [last_calls EXCEPT
                    ![p] = <<"insert">> \o display_restaurant_dietary_options]
           /\ option_input' = [option_input EXCEPT ![p] = <<>>]
           /\ pc' = [pc EXCEPT ![p] = "option-prompt"]
    /\ UNCHANGED <<ivars, active, tracking, restaurant_rows, option_rows,
                   junction0, restaurants, dietary_options, restaurant_input,
                   restaurant_id>>

\* main(): KeyboardInterrupt (or end of input) while a prompt waits
Interrupt(p) ==
    /\ pc[p] \in {"restaurant-prompt", "option-prompt"}
    /\ pc' = [pc EXCEPT ![p] = "exited"]
    /\ printed' = [printed EXCEPT ![p] = {"terminated"}]
    /\ last_calls' = [last_calls EXCEPT ![p] = <<>>]
    /\ UNCHANGED <<ivars, active, tracking, restaurant_rows, option_rows,
                   junction, junction0, restaurants, dietary_options,
                   restaurant_input, restaurant_id, option_input, add_result,
                   add_hist>>

NextManager ==
    \/ \E p \in active, err_r \in BOOLEAN, err_o \in BOOLEAN :
          Startup(p, err_r, err_o)
    \/ \E p \in active, line \in Lines : RestaurantInput(p, line)
    \/ \E p \in active, line \in Lines, err_check \in BOOLEAN :
          OptionInput(p, line, err_check)
    \/ \E p \in active, err_insert \in BOOLEAN : Insert(p, err_insert)
    \/ \E p \in active : Interrupt(p)

\* junction tables the manager may start from (none holds a pair twice)
InitialLinks == { {}, {<<"r1", "o1">>} }

InitSingle ==
    /\ ImporterIdle
    /\ InitManager({"m1"}, RestaurantTables, OptionTables, InitialLinks, TRUE)

\* one manager process
SpecManager == InitSingle /\ [][NextManager]_vars

InitTwo ==
    /\ ImporterIdle
    /\ InitManager(Procs, {[n \in {<<"A">>} |-> "r1"]},
                   {Map2(<<"2">>, "o1", <<"V">>, "o2")}, {{}}, FALSE)

\* two manager processes against the same database
SpecTwoManagers == InitTwo /\ [][NextManager]_vars

(***************************************************************************)
(* Importer claims                                                         *)
(***************************************************************************)
\* the loop body is about to handle json_files[i]
AtFile == ipc = "loop" /\ i <= Len(json_files)
CurrentFile == json_files[i]
CurrentName == extract_restaurant_name(CurrentFile)
CurrentContent == file_content[CurrentFile]

\* C3 (as claimed): whenever the loop body handles a file that holds valid JSON
\* (null, {}, [], 0 and false included) and whose stem names an existing
\* restaurant, and no database call fails, the restaurant's menus field becomes
\* the payload and the file is counted as a success.
C3_StoredMenuEqualsPayload ==
    [][ ( /\ AtFile
          /\ CurrentContent \in JsonTexts
          /\ CurrentName \in DOMAIN menus
          /\ last_outcome' \notin {"exception", "no-data"} )
        => ( /\ menus'[CurrentName] = CurrentContent
             /\ success_count' = success_count + 1
             /\ failure' = failure ) ]_vars

\* C4: a .json file that fails to parse or to be read causes no database call,
\* adds exactly one to the failure count, leaves the success count (and the
\* table) alone and moves the loop to the next file; and the run always goes on
\* to the "Import complete" report.
C4_InvalidFileSkipped ==
    /\ [][ (AtFile /\ CurrentContent \in {Unreadable, BadJson})
           => ( /\ db_calls_file' = <<>>
                /\ menus' = menus
                /\ failure' = failure + 1
                /\ success_count' = success_count
                /\ i' = i + 1
                /\ ipc' = "loop" ) ]_vars
    /\ ((ipc = "loop") ~> (ipc = "done"))

\* a completed run in which an invalid file came first and a later file was
\* imported
C4_Witness ==
    /\ ipc = "done"
    /\ Len(json_files) >= 2
    /\ file_content[json_files[1]] \in {Unreadable, BadJson}
    /\ failure >= 1
    /\ success_count >= 1

\* C5: for a file whose derived name matches no restaurants row, no update and
\* no insert is issued, nothing escapes update_restaurant_menu, the restaurants
\* table is unchanged and the file is counted as a failure.
C5_UnknownRestaurantSkipped ==
    [][ (AtFile /\ CurrentName \notin DOMAIN menus)
        => ( /\ menus' = menus
             /\ \A k \in 1..Len(db_calls_file') :
                   db_calls_file'[k] = "select"
             /\ last_outcome' \in {"load-failed", "not-found", "exception"}
             /\ ipc' = "loop"
             /\ failure' = failure + 1
             /\ success_count' = success_count ) ]_vars

\* update_restaurant_menu looked the name up, found no row and returned False
C5_Witness ==
    /\ last_outcome = "not-found"
    /\ db_calls_file = <<"select">>
    /\ extract_restaurant_name(last_file) \notin DOMAIN menus
    /\ failure >= 1

Stripped == [line \in Lines |-> strip(line)]

\* line -> the word the loops compare with the control words
TypedWord == [line \in Lines |-> lower(strip(line))]

\* line -> the number typed, -1 when the line is no number
TypedNumber ==
    [line \in Lines |-> IF isdigit(strip(line)) THEN int(strip(line)) ELSE -1]

\* process p waits at the inner prompt and the line names one of its options
AsksAdd(p, line) ==
    /\ pc[p] = "option-prompt"
    /\ option_choice(line, dietary_options[p]).kind = "selected"

\* the pair such a line asks to add
AddPair(p, line) ==
    <<restaurant_id[p],
      dietary_options[p][option_choice(line, dietary_options[p]).name]>>

\* what the second add of a pair is claimed to do
FindsExistingRow(p, pr) ==
    /\ junction[pr] = 1
    /\ junction' = junction
    /\ pc'[p] = "option-prompt"
    /\ "already" \in printed'[p]
    /\ add_result'[p] = "False"
    /\ \A k \in 1..Len(last_calls'[p]) : last_calls'[p][k] # "insert"

C2_PairUnique == \A pr \in Pairs : junction[pr] <= 1

\* C7 (as claimed): at either prompt, the 1-based position of a name in the
\* sorted list and the name itself are taken the same way, for every name of
\* the loaded mapping.
C7_NumberAndNameAgree ==
    \A p \in active :
        /\ \A k \in 1..Cardinality(DOMAIN restaurants[p]) :
              restaurant_choice(str(k), restaurants[p])
                = restaurant_choice(sorted(DOMAIN restaurants[p])[k], restaurants[p])
        /\ \A k \in 1..Cardinality(DOMAIN dietary_options[p]) :
              option_choice(str(k), dietary_options[p])
                = option_choice(sorted(DOMAIN dietary_options[p])[k],
                                dietary_options[p])

\* a line that is a number outside 1..N, or neither a key of the mapping nor a
\* control word (the line as the loops see it: stripped, control words in any
\* case)
InvalidLine(line, map, controls) ==
    /\ TypedWord[line] \notin controls
    /\ IF TypedNumber[line] >= 0
       THEN TypedNumber[line] < 1 \/ TypedNumber[line] > Cardinality(DOMAIN map)
       ELSE Stripped[line] \notin DOMAIN map

C9_ControlWords ==
    [][ \A p \in active, line \in Lines :
          /\ ( /\ pc[p] = "option-prompt"
               /\ TypedWord[line] = DoneWord
               /\ \E e \in BOOLEAN : OptionInput(p, line, e) )
             => ( /\ pc'[p] = "restaurant-prompt"
                  /\ junction' = junction
                  /\ last_calls'[p] = <<>>
                  /\ add_result' = add_result )
          /\ ( /\ pc[p] \in {"restaurant-prompt", "option-prompt"}
               /\ TypedWord[line] \in ExitWords
               /\ RestaurantInput(p, line) \/ \E e \in BOOLEAN : OptionInput(p, line, e) )
             => ( /\ pc'[p] = "exited"
                  /\ junction' = junction
                  /\ last_calls'[p] = <<>> ) ]_vars

\* "done" was typed at the inner prompt of a process one of whose options is
\* named done: the process is back at the restaurant prompt
C9_Witness ==
    /\ pc["m1"] = "restaurant-prompt"
    /\ DoneWord \in DOMAIN dietary_options["m1"]
    /\ restaurant_id["m1"] # "none"
    /\ printed["m1"] = {}
    /\ last_calls["m1"] = <<>>

\* C10: when the select of add_dietary_option_to_restaurant answers with an
\* error no insert is issued and False is returned; when its insert answers
\* with an error False is returned; either way no "Added" is printed and the
\* process stays in the inner loop of the same restaurant.
C10_ErrorResponses ==
    [][ \A p \in active :
          /\ \A line \in Lines :
               (AsksAdd(p, line) /\ OptionInput(p, line, TRUE))
               => ( /\ junction' = junction
                    /\ \A k \in 1..Len(last_calls'[p]) :
                          last_calls'[p][k] # "insert"
                    /\ add_result'[p] = "False"
                    /\ "added" \notin printed'[p]
                    /\ pc'[p] = "option-prompt"
                    /\ restaurant_id' = restaurant_id
                    /\ restaurant_input' = restaurant_input )
          /\ Insert(p, TRUE)
               => ( /\ junction' = junction
                    /\ add_result'[p] = "False"
                    /\ "added" \notin printed'[p]
                    /\ pc'[p] = "option-prompt"
                    /\ restaurant_id' = restaurant_id
                    /\ restaurant_input' = restaurant_input ) ]_vars

\* an insert answered with an error: nothing was added and the inner loop of
\* r1 prompts again
C10_Witness ==
    /\ pc["m1"] = "option-prompt"
    /\ restaurant_id["m1"] = "r1"
    /\ printed["m1"] = {"error-add"}
    /\ add_result["m1"] = "False"
    /\ junction = junction0

====
